---- MODULE Spec2Model ----
(***************************************************************************)
(* Model of the mechanical layer of the crowd simulator (CrowdMechanics).  *)
(*                                                                         *)
(* Numbers.  The program computes with doubles; the model computes with    *)
(* integers on fixed grids, chosen so that every operation the program     *)
(* performs on the modelled inputs is exact:                               *)
(*   lengths            1 unit = 1/5000 m   (LenUnitsPerMetre)             *)
(*   velocities         1 unit = 1/500 m/s  (VelUnitsPerMps)               *)
(*   angles, ang. vel.  the same two grids, per radian                     *)
(*   time               dt is counted in units of 0.1 s, so that           *)
(*                      velocity * dt is a length on the length grid       *)
(*   damping rates      counted in units of ln(2) / 0.1 s, so that         *)
(*                      exp(-dt * rate) = 1 / 2^(dt * rate) is rational    *)
(*   forces             counted in units of rate unit * mass unit *        *)
(*                      velocity unit, so Fp / rate / mass is a velocity   *)
(*   sqrt               floor of the square root; for an integer c,        *)
(*                      floor(sqrt(s)) < c  <=>  sqrt(s) < c               *)
(* IEEE rounding is not modelled.                                          *)
(***************************************************************************)
EXTENDS Integers, Sequences, FiniteSets, TLC

VARIABLES
    pc,                 \* position inside CrowdMechanics: "idle" between calls
    rc,                 \* return code of the last finished call
    calls,              \* number of calls of CrowdMechanics started so far
    files,              \* the five input files (the dynamics file is rewritten)
    loadStaticData,     \* Global.h:58, the first-call gate
    dt,                 \* Global.cpp:78
    Lx, Ly,             \* Global.cpp:73-74
    listObstacles,      \* Global.cpp:75
    obstaclesMaterial,  \* Global.cpp:87
    nMaterials,         \* Global.cpp:84
    intrinsicProperties,\* Global.cpp:85
    binaryProperties,   \* Global.cpp:86
    nAgents,            \* Global.cpp:67
    agentMap,           \* Global.cpp:68
    agentMapInverse,    \* Global.cpp:69
    agentProperties,    \* Global.cpp:83
    agents,             \* Global.cpp:70, the agent table
    mech_active_agents, \* Crowd.cpp:38
    prev,               \* history: the agent table when the current call began
    created,            \* history: the agent table as first created
    probe               \* argument and result of a function applied on its own

progVars == <<loadStaticData, dt, Lx, Ly, listObstacles, obstaclesMaterial,
              nMaterials, intrinsicProperties, binaryProperties, nAgents,
              agentMap, agentMapInverse, agentProperties, agents,
              mech_active_agents>>
histVars == <<prev, created>>
vars == <<pc, rc, calls, files, progVars, histVars, probe>>

(***************************************************************************)
(* Units and literals of the source                                        *)
(***************************************************************************)
VelUnitsPerMps == 5 * 100
LenUnitsPerMetre == 10 * VelUnitsPerMps

EXIT_SUCCESS == 0
EXIT_FAILURE == 1

\* Global.h:110  constexpr double vMaxAgent = 7.;
vMaxAgent == 7 * VelUnitsPerMps

\* Crowd.cpp:358, 366  the literal 1e-1 (metres)
OverlapMargin == LenUnitsPerMetre \div 10

\* Crowd.cpp:390  the literal 1e-4 ((m/s)^2) on the velocity grid
MismatchThreshold == (VelUnitsPerMps * VelUnitsPerMps) \div 10000

(***************************************************************************)
(* Arithmetic helpers                                                      *)
(***************************************************************************)
Abs(x) == IF x < 0 THEN -x ELSE x

Max(a, b) == IF a >= b THEN a ELSE b

RECURSIVE Gcd(_, _)
Gcd(a, b) == IF b = 0 THEN Abs(a) ELSE Gcd(b, Abs(a) % Abs(b))

\* floor(sqrt(n)) by bisection on lo..hi, lo*lo <= n < (hi+1)*(hi+1)
RECURSIVE SqrtBetween(_, _, _)
SqrtBetween(n, lo, hi) ==
    IF lo = hi THEN lo
    ELSE LET mid == (lo + hi + 1) \div 2
         IN  IF mid * mid <= n THEN SqrtBetween(n, mid, hi)
                               ELSE SqrtBetween(n, lo, mid - 1)

\* 46340 is the largest root whose square is a 32-bit integer
sqrt(n) == SqrtBetween(n, 0, 46340)

\* <cmath> fmod: the remainder has the sign of the dividend
fmod(a, b) == IF a >= 0 THEN a % b ELSE -((-a) % b)

\* 2^k
RECURSIVE pow2(_)
pow2(k) == IF k = 0 THEN 1 ELSE 2 * pow2(k - 1)

(***************************************************************************)
(* double2 and its operators (Global.cpp:42-53)                            *)
(***************************************************************************)
double2(a, b) == <<a, b>>

Add2(a, b) == <<a[1] + b[1], a[2] + b[2]>>

Sub2(a, b) == <<a[1] - b[1], a[2] - b[2]>>

Dot2(a, b) == a[1] * b[1] + a[2] * b[2]

Norm2(a) == sqrt(Dot2(a, a))

(***************************************************************************)
(* Geometry (Global.cpp:138-182)                                           *)
(***************************************************************************)
get_distance_to_wall_and_closest_point(vertexA, vertexB, C) ==
    LET AB == Sub2(vertexB, vertexA)
        AC == Sub2(C, vertexA)
        num == Dot2(AB, AC)
        den == Dot2(AB, AB)
        g == Gcd(num, den)
        \* gamma = num / den, reduced
        gn == num \div g
        gd == den \div g
        P == <<vertexA[1] + (gn * AB[1]) \div gd, vertexA[2] + (gn * AB[2]) \div gd>>
    IN  IF num <= 0 THEN <<Norm2(AC), vertexA>>
        ELSE IF num >= den THEN <<Norm2(Sub2(C, vertexB)), vertexB>>
        ELSE <<Norm2(Sub2(C, P)), P>>

get_interval(x, length) == fmod(x + length \div 2, length) - length \div 2

\* the two wrapped components get_distance takes the norm of
get_distance_components(A, B, lx, ly) ==
    <<get_interval(A[1] - B[1], lx), get_interval(A[2] - B[2], ly)>>

get_distance(A, B, lx, ly) == Norm2(get_distance_components(A, B, lx, ly))

\* atan2 on the eight directions of the grid, in eighths of a turn (pi/4);
\* the modelled inputs only produce vectors on an axis or a diagonal
atan2(y, x) ==
    CASE y = 0 /\ x > 0 -> 0
      [] y > 0 /\ x = y -> 1
      [] y > 0 /\ x = 0 -> 2
      [] y > 0 /\ x = -y -> 3
      [] y = 0 /\ x < 0 -> 4
      [] y < 0 /\ x = y -> -3
      [] y < 0 /\ x = 0 -> -2
      [] y < 0 /\ x = -y -> -1
      [] y = 0 /\ x = 0 -> 0

(***************************************************************************)
(* Sequence helpers                                                        *)
(***************************************************************************)
Range(s) == {s[i] : i \in DOMAIN s}

\* std::ranges::find(list, x) != list.end()
Contains(s, x) == \E i \in DOMAIN s : s[i] = x

\* number of occurrences of x in s
Count(s, x) == Cardinality({i \in DOMAIN s : s[i] = x})

\* &v[from], &v[to] of a 0-based vector stored as a sequence
Slice(s, from, to) == [i \in 1..(to - from) |-> s[from + i]]

(***************************************************************************)
(* Agent (Agent.h:33-86, Agent.cpp:44-110)                                 *)
(***************************************************************************)
\* Agent.cpp:48-55  the index (1-based) of the first shape farthest from G;
\* cpt_max stays at the first shape when every offset has magnitude 0
RECURSIVE size_body_scan(_, _, _, _)
size_body_scan(delta_gtos, i, max_delta_gtos, cpt_max) ==
    IF i > Len(delta_gtos) THEN <<max_delta_gtos, cpt_max>>
    ELSE LET magnitude == Norm2(delta_gtos[i])
         IN  IF magnitude > max_delta_gtos
             THEN size_body_scan(delta_gtos, i + 1, magnitude, i)
             ELSE size_body_scan(delta_gtos, i + 1, max_delta_gtos, cpt_max)

size_body(delta_gtos, radius_shapes) ==
    LET scan == size_body_scan(delta_gtos, 1, 0, 1)
        max_delta_gtos == scan[1]
        cpt_max == scan[2]
        radius == IF radius_shapes[cpt_max] < 0 THEN -radius_shapes[cpt_max]
                  ELSE radius_shapes[cpt_max]
    IN  radius + max_delta_gtos

\* Agent::Agent; the members the constructor does not initialise hold the
\* indeterminate value u
Agent(ID, Ids_shapes, nb_shapes, delta_gtos, radius_shapes, theta_body_init, mass, moi, u) ==
    [_id |-> ID,
     _mass |-> mass,
     _moi |-> moi,
     _ids_shapes |-> Ids_shapes,
     _radius |-> size_body(delta_gtos, radius_shapes),
     _nb_shapes |-> nb_shapes,
     _delta_gtos |-> delta_gtos,
     _radius_shapes |-> radius_shapes,
     _theta_init |-> theta_body_init,
     _x |-> u, _y |-> u, _theta |-> u,
     _vx |-> u, _vy |-> u, _w |-> u,
     _vx_des |-> u, _vy_des |-> u, _w_des |-> u,
     _theta_des |-> u,
     _v_des |-> <<u, u>>,
     _neighbours |-> <<>>,
     _neighbours_walls |-> <<>>]

\* Agent::move
move(agent, step) ==
    [agent EXCEPT !._x = @ + agent._vx * step,
                  !._y = @ + agent._vy * step,
                  !._theta = @ + agent._w * step]

get_r(agent) == <<agent._x, agent._y>>

\* the members declared const in Agent.h, and the shape offsets
Immutable(agent) ==
    [_id |-> agent._id, _mass |-> agent._mass, _moi |-> agent._moi,
     _ids_shapes |-> agent._ids_shapes, _radius |-> agent._radius,
     _nb_shapes |-> agent._nb_shapes, _delta_gtos |-> agent._delta_gtos,
     _radius_shapes |-> agent._radius_shapes, _theta_init |-> agent._theta_init]

\* the members a macro step rewrites
Mutable(agent) ==
    [_x |-> agent._x, _y |-> agent._y, _theta |-> agent._theta,
     _vx |-> agent._vx, _vy |-> agent._vy, _w |-> agent._w,
     _vx_des |-> agent._vx_des, _vy_des |-> agent._vy_des, _w_des |-> agent._w_des]

(***************************************************************************)
(* XML input: an attribute is present with a value, or absent              *)
(***************************************************************************)
Att(v) == [present |-> TRUE, v |-> v]

NoAtt == [present |-> FALSE, v |-> 0]

\* one comma-separated token of a coordinate string: a number stod accepts,
\* or text it throws on
Tok(v) == [num |-> TRUE, v |-> v]

BadTok == [num |-> FALSE, v |-> 0]

\* the string "a,b"
Str2(a, b) == <<Tok(a), Tok(b)>>

(***************************************************************************)
(* Rationals n/d for the stiffnesses; d = 0 stands for inf (n # 0) and for *)
(* NaN (n = 0), the values the division of doubles yields                  *)
(***************************************************************************)
Sgn(x) == IF x > 0 THEN 1 ELSE IF x < 0 THEN -1 ELSE 0

Rat(n, d) ==
    IF d = 0 THEN <<Sgn(n), 0>>
    ELSE LET g == Gcd(n, d) IN <<Sgn(d) * (n \div g), Abs(d) \div g>>

RatAdd(a, b) ==
    IF a[2] = 0 /\ b[2] = 0 THEN (IF a[1] = b[1] THEN a ELSE <<0, 0>>)
    ELSE IF a[2] = 0 THEN a
    ELSE IF b[2] = 0 THEN b
    ELSE Rat(a[1] * b[2] + b[1] * a[2], a[2] * b[2])

\* 1 / a
RatInv(a) ==
    IF a[2] = 0 THEN (IF a[1] = 0 THEN <<0, 0>> ELSE <<0, 1>>)
    ELSE Rat(a[2], a[1])

IsFinite(a) == a[2] # 0

(***************************************************************************)
(* Global.cpp:104-127                                                      *)
(***************************************************************************)
\* the loop of parse2DComponents from token i on; result holds the values
\* pushed so far.  u is what a read past the end of result yields.
RECURSIVE parse2DLoop(_, _, _, _)
parse2DLoop(line, i, result, u) ==
    IF i > Len(line)
    THEN <<EXIT_SUCCESS, <<IF Len(result) >= 1 THEN result[1] ELSE u,
                           IF Len(result) >= 2 THEN result[2] ELSE u>> >>
    ELSE IF ~line[i].num THEN <<EXIT_FAILURE, <<0, 0>> >>
    ELSE IF Len(result) + 1 > 2 THEN <<EXIT_FAILURE, <<0, 0>> >>
    ELSE parse2DLoop(line, i + 1, Append(result, line[i].v), u)

parse2DComponents(line, u) == parse2DLoop(line, 1, <<>>, u)

(***************************************************************************)
(* Materials (InputStatic.cpp:86-230, 481-506; Global.h:79-98)             *)
(***************************************************************************)
DAMPING_NORMAL == 0
DAMPING_TANGENTIAL == 1
STIFFNESS_NORMAL == 2
STIFFNESS_TANGENTIAL == 3
FRICTION_SLIDING == 4
nBinaryProperties == 5
YOUNG_MODULUS == 0
SHEAR_MODULUS == 1

\* binaryProperties[p][i][j] := v
SetBinary(bp, p, i, j, v) == [bp EXCEPT ![p][i][j] = v]

computeStiffnessNormal(ip, i, j) ==
    LET Ei == ip[YOUNG_MODULUS][i]
        Ej == ip[YOUNG_MODULUS][j]
        Gi == ip[SHEAR_MODULUS][i]
        Gj == ip[SHEAR_MODULUS][j]
    IN  RatInv(RatAdd(Rat(4 * Gi - Ei, 4 * Gi * Gi), Rat(4 * Gj - Ej, 4 * Gj * Gj)))

computeStiffnessTangential(ip, i, j) ==
    LET Ei == ip[YOUNG_MODULUS][i]
        Ej == ip[YOUNG_MODULUS][j]
        Gi == ip[SHEAR_MODULUS][i]
        Gj == ip[SHEAR_MODULUS][j]
    IN  RatInv(RatAdd(Rat(6 * Gi - Ei, 8 * Gi * Gi), Rat(6 * Gj - Ej, 8 * Gj * Gj)))

\* InputStatic.cpp:120-143  st = [rc, nMaterials, materialMapping, elasticProperties]
RECURSIVE readMaterialElements(_, _, _)
readMaterialElements(elems, k, st) ==
    IF k > Len(elems) THEN st
    ELSE LET e == elems[k]
         IN  IF ~e.Id.present THEN [st EXCEPT !.rc = EXIT_FAILURE]
             ELSE LET mapped == [id \in DOMAIN st.materialMapping \cup {e.Id.v} |->
                                    IF id = e.Id.v THEN st.nMaterials
                                    ELSE st.materialMapping[id]]
                      st1 == [st EXCEPT !.materialMapping = mapped]
                  IN  IF ~e.YoungModulus.present \/ ~e.ShearModulus.present
                      THEN [st1 EXCEPT !.rc = EXIT_FAILURE]
                      ELSE readMaterialElements(elems, k + 1,
                               [st1 EXCEPT !.elasticProperties =
                                               Append(@, <<e.YoungModulus.v, e.ShearModulus.v>>),
                                           !.nMaterials = @ + 1])

\* InputStatic.cpp:167-178  the double loop over (i, j), in its order
RECURSIVE populateStiffness(_, _, _, _)
populateStiffness(bp, ip, n, k) ==
    IF k >= n * n THEN bp
    ELSE LET i == k \div n
             j == k % n
             stiffnessNormal == computeStiffnessNormal(ip, i, j)
             stiffnessTangential == computeStiffnessTangential(ip, i, j)
             b1 == SetBinary(bp, STIFFNESS_NORMAL, j, i, stiffnessNormal)
             b2 == SetBinary(b1, STIFFNESS_NORMAL, i, j, stiffnessNormal)
             b3 == SetBinary(b2, STIFFNESS_TANGENTIAL, j, i, stiffnessTangential)
             b4 == SetBinary(b3, STIFFNESS_TANGENTIAL, i, j, stiffnessTangential)
         IN  populateStiffness(b4, ip, n, k + 1)

\* InputStatic.cpp:220-225  the six assignments of one Contact record
writeContact(bp, m1, m2, gamma_n, gamma_t, mu_d) ==
    LET b1 == SetBinary(bp, DAMPING_NORMAL, m1, m2, gamma_n)
        b2 == SetBinary(b1, DAMPING_NORMAL, m2, m1, gamma_n)
        b3 == SetBinary(b2, DAMPING_TANGENTIAL, m1, m2, gamma_t)
        b4 == SetBinary(b3, DAMPING_TANGENTIAL, m2, m1, gamma_t)
        b5 == SetBinary(b4, FRICTION_SLIDING, m1, m2, mu_d)
    IN  SetBinary(b5, FRICTION_SLIDING, m2, m1, mu_d)

\* InputStatic.cpp:192-227  st = [rc, binaryProperties]
RECURSIVE readContacts(_, _, _, _)
readContacts(contacts, k, materialMapping, st) ==
    IF k > Len(contacts) THEN st
    ELSE LET c == contacts[k]
         IN  IF c.Id1 \notin DOMAIN materialMapping \/ c.Id2 \notin DOMAIN materialMapping
             THEN [st EXCEPT !.rc = EXIT_FAILURE]
             ELSE IF ~c.GammaNormal.present \/ ~c.GammaTangential.present
                     \/ ~c.KineticFriction.present
             THEN [st EXCEPT !.rc = EXIT_FAILURE]
             ELSE readContacts(contacts, k + 1, materialMapping,
                      [st EXCEPT !.binaryProperties =
                          writeContact(@, materialMapping[c.Id1], materialMapping[c.Id2],
                                       c.GammaNormal.v, c.GammaTangential.v,
                                       c.KineticFriction.v)])

\* readMaterials on the globals G; heap[<<p, i, j>>] is the indeterminate
\* content of the cell that new double[nMaterials] hands out.
\* Returns [rc, G, materialMapping].
readMaterials(file, G, heap) ==
    LET fail(g, mm) == [rc |-> EXIT_FAILURE, G |-> g, materialMapping |-> mm]
        empty == [id \in {} |-> 0]
    IN  IF ~file.loads \/ ~file.hasIntrinsic \/ Len(file.Materials) = 0
        THEN fail(G, empty)
        ELSE
        LET m == readMaterialElements(file.Materials, 1,
                     [rc |-> EXIT_SUCCESS, nMaterials |-> 0, materialMapping |-> empty,
                      elasticProperties |-> <<>>])
            n == m.nMaterials
            G1 == [G EXCEPT !.nMaterials = n]
        IN  IF m.rc = EXIT_FAILURE THEN fail(G1, m.materialMapping)
            ELSE
            LET ip == [q \in 0..1 |-> [i \in 0..(n - 1) |-> m.elasticProperties[i + 1][q + 1]]]
                bp0 == [p \in 0..(nBinaryProperties - 1) |->
                           [i \in 0..(n - 1) |-> [j \in 0..(n - 1) |-> heap[<<p, i, j>>]]]]
                bp1 == populateStiffness(bp0, ip, n, 0)
                G2 == [G1 EXCEPT !.intrinsicProperties = ip, !.binaryProperties = bp1]
            IN  IF ~file.hasBinary \/ Len(file.Contacts) = 0
                THEN fail(G2, m.materialMapping)
                ELSE
                LET c == readContacts(file.Contacts, 1, m.materialMapping,
                                      [rc |-> EXIT_SUCCESS, binaryProperties |-> bp1])
                IN  [rc |-> c.rc,
                     G |-> [G2 EXCEPT !.binaryProperties = c.binaryProperties],
                     materialMapping |-> m.materialMapping]

(***************************************************************************)
(* Parameters and geometry (InputStatic.cpp:24-76, 240-326)                *)
(***************************************************************************)
\* readParameters; returns [rc, G]
readParameters(file, G) ==
    IF ~file.loads \/ ~file.TimeStep.present
    THEN [rc |-> EXIT_FAILURE, G |-> G]
    ELSE LET G1 == [G EXCEPT !.dt = file.TimeStep.v]
         IN  IF ~file.TimeStepMechanical.present
             THEN [rc |-> EXIT_FAILURE, G |-> G1]
             ELSE [rc |-> EXIT_SUCCESS, G |-> G1]

\* InputStatic.cpp:303-319  st = [rc, wall]
RECURSIVE readCorners(_, _, _, _)
readCorners(corners, k, st, u) ==
    IF k > Len(corners) THEN st
    ELSE IF ~corners[k].Coordinates.present THEN [st EXCEPT !.rc = EXIT_FAILURE]
    ELSE LET parsed == parse2DComponents(corners[k].Coordinates.v, u)
         IN  IF parsed[1] # EXIT_SUCCESS THEN [st EXCEPT !.rc = EXIT_FAILURE]
             ELSE readCorners(corners, k + 1, [st EXCEPT !.wall = Append(@, parsed[2])], u)

\* InputStatic.cpp:283-323  st = [rc, G]
RECURSIVE readWalls(_, _, _, _, _)
readWalls(walls, k, materialMapping, st, u) ==
    IF k > Len(walls) THEN st
    ELSE LET w == walls[k]
         IN  IF ~w.MaterialId.present \/ w.MaterialId.v \notin DOMAIN materialMapping
             THEN [st EXCEPT !.rc = EXIT_FAILURE]
             ELSE
             LET G1 == [st.G EXCEPT !.obstaclesMaterial =
                                        Append(@, materialMapping[w.MaterialId.v])]
             IN  IF Len(w.Corners) = 0 THEN [rc |-> EXIT_FAILURE, G |-> G1]
                 ELSE
                 LET c == readCorners(w.Corners, 1, [rc |-> EXIT_SUCCESS, wall |-> <<>>], u)
                 IN  IF c.rc # EXIT_SUCCESS THEN [rc |-> EXIT_FAILURE, G |-> G1]
                     ELSE readWalls(walls, k + 1, materialMapping,
                              [rc |-> EXIT_SUCCESS,
                               G |-> [G1 EXCEPT !.listObstacles = Append(@, c.wall)]], u)

\* readGeometry; returns [rc, G]
readGeometry(file, materialMapping, G, u) ==
    IF ~file.loads \/ ~file.Lx.present THEN [rc |-> EXIT_FAILURE, G |-> G]
    ELSE LET G1 == [G EXCEPT !.Lx = file.Lx.v]
         IN  IF ~file.Ly.present THEN [rc |-> EXIT_FAILURE, G |-> G1]
             ELSE LET G2 == [G1 EXCEPT !.Ly = file.Ly.v]
                  IN  IF Len(file.Walls) = 0 THEN [rc |-> EXIT_FAILURE, G |-> G2]
                      ELSE readWalls(file.Walls, 1, materialMapping,
                                     [rc |-> EXIT_SUCCESS, G |-> G2], u)

(***************************************************************************)
(* Agents file (InputStatic.cpp:343-471)                                   *)
(***************************************************************************)
\* InputStatic.cpp:411-459  st = [rc, shapeIDagent, radii, delta_gtos, s, sGlobal]
RECURSIVE readShapes(_, _, _, _, _, _)
readShapes(shapes, k, agentId, materialMapping, st, u) ==
    IF k > Len(shapes) THEN st
    ELSE LET sh == shapes[k]
             st1 == [st EXCEPT !.shapeIDagent = Append(@, agentId)]
         IN  IF ~sh.Id.present THEN [st1 EXCEPT !.rc = EXIT_FAILURE]
             ELSE IF ~sh.MaterialId.present \/ sh.MaterialId.v \notin DOMAIN materialMapping
             THEN [st1 EXCEPT !.rc = EXIT_FAILURE]
             ELSE IF ~sh.Radius.present THEN [st1 EXCEPT !.rc = EXIT_FAILURE]
             ELSE LET st2 == [st1 EXCEPT !.radii = Append(@, sh.Radius.v)]
                  IN  IF ~sh.Position.present THEN [st2 EXCEPT !.rc = EXIT_FAILURE]
                      ELSE LET parsed == parse2DComponents(sh.Position.v, u)
                           IN  IF parsed[1] # EXIT_SUCCESS
                               THEN [st2 EXCEPT !.rc = EXIT_FAILURE]
                               ELSE readShapes(shapes, k + 1, agentId, materialMapping,
                                        [st2 EXCEPT !.delta_gtos = Append(@, parsed[2]),
                                                    !.s = @ + 1,
                                                    !.sGlobal = @ + 1], u)

\* InputStatic.cpp:371-465  st = [rc, G, nShapesPerAgent, shapeIDagent, edges,
\* radii, masses, mois, delta_gtos, sGlobal, agentId]
RECURSIVE readAgentElements(_, _, _, _, _)
readAgentElements(elems, k, materialMapping, st, u) ==
    IF k > Len(elems) THEN st
    ELSE
    LET e == elems[k]
    IN  IF ~e.Id.present THEN [st EXCEPT !.rc = EXIT_FAILURE]
        ELSE
        LET mapped == [id \in DOMAIN st.G.agentMap \cup {e.Id.v} |->
                          IF id = e.Id.v THEN st.agentId ELSE st.G.agentMap[id]]
            mass == IF e.Mass.present THEN e.Mass.v ELSE u
            moi == IF e.MomentOfInertia.present THEN e.MomentOfInertia.v ELSE u
            st1 == [st EXCEPT !.G.agentMap = mapped,
                              !.G.agentMapInverse = Append(@, e.Id.v),
                              !.masses = Append(@, mass),
                              !.mois = Append(@, moi)]
        IN  IF ~e.FloorDamping.present \/ ~e.AngularDamping.present
            THEN [st1 EXCEPT !.rc = EXIT_FAILURE]
            ELSE
            LET st2 == [st1 EXCEPT !.G.agentProperties =
                                       Append(@, <<e.FloorDamping.v, e.AngularDamping.v>>)]
            IN  IF Len(e.Shapes) = 0 THEN [st2 EXCEPT !.rc = EXIT_FAILURE]
                ELSE
                LET sh == readShapes(e.Shapes, 1, st.agentId, materialMapping,
                              [rc |-> EXIT_SUCCESS, shapeIDagent |-> st2.shapeIDagent,
                               radii |-> st2.radii, delta_gtos |-> st2.delta_gtos,
                               s |-> 0, sGlobal |-> st2.sGlobal], u)
                    st3 == [st2 EXCEPT !.shapeIDagent = sh.shapeIDagent,
                                       !.radii = sh.radii,
                                       !.delta_gtos = sh.delta_gtos,
                                       !.sGlobal = sh.sGlobal]
                IN  IF sh.rc # EXIT_SUCCESS THEN [st3 EXCEPT !.rc = EXIT_FAILURE]
                    ELSE readAgentElements(elems, k + 1, materialMapping,
                             [st3 EXCEPT !.nShapesPerAgent = Append(@, sh.s),
                                         !.edges = Append(@, sh.sGlobal),
                                         !.agentId = @ + 1], u)

\* readAgents; returns the loop record with nAgents set and edges completed
readAgents(file, materialMapping, G, u) ==
    LET st0 == [rc |-> EXIT_SUCCESS, G |-> G, nShapesPerAgent |-> <<>>,
                shapeIDagent |-> <<>>, edges |-> <<>>, radii |-> <<>>, masses |-> <<>>,
                mois |-> <<>>, delta_gtos |-> <<>>, sGlobal |-> 0, agentId |-> 0]
    IN  IF ~file.loads \/ Len(file.Agents) = 0 THEN [st0 EXCEPT !.rc = EXIT_FAILURE]
        ELSE LET st == readAgentElements(file.Agents, 1, materialMapping, st0, u)
             IN  IF st.rc # EXIT_SUCCESS THEN st
                 ELSE [st EXCEPT !.G.nAgents = Len(st.masses),
                                 !.edges = <<0>> \o @]

(***************************************************************************)
(* Crowd.cpp                                                               *)
(***************************************************************************)
\* exp(-step * rate), as the denominator 2^(step * rate) of 1 / 2^(step * rate)
expNegDen(step, rate) == pow2(step * rate)

\* Crowd.cpp:250-251
criticalDistanceWall(step) == step * vMaxAgent

criticalDistance(step) == 2 * criticalDistanceWall(step)

\* Crowd.cpp:259-265  the segments of obstacle iobs from iwall on
RECURSIVE wallsOfObstacle(_, _, _, _, _)
wallsOfObstacle(G, agent1, iobs, iwall, acc) ==
    IF iwall >= Len(G.listObstacles[iobs + 1]) - 1 THEN acc
    ELSE LET d == get_distance_to_wall_and_closest_point(
                      G.listObstacles[iobs + 1][iwall + 1],
                      G.listObstacles[iobs + 1][iwall + 2], get_r(agent1))
         IN  wallsOfObstacle(G, agent1, iobs, iwall + 1,
                 IF d[1] < criticalDistanceWall(G.dt) THEN Append(acc, <<iobs, iwall>>)
                 ELSE acc)

\* Crowd.cpp:257-266  _neighbours_walls of agent1 after the loop over the obstacles
RECURSIVE wallsOfAgent(_, _, _, _)
wallsOfAgent(G, agent1, iobs, acc) ==
    IF iobs >= Len(G.listObstacles) THEN acc
    ELSE wallsOfAgent(G, agent1, iobs + 1, wallsOfObstacle(G, agent1, iobs, 0, acc))

\* Crowd.cpp:274  the test that makes a1 < a2 neighbours
areNeighbours(G, agent1, agent2) ==
    get_distance(get_r(agent1), get_r(agent2), G.Lx, G.Ly) < criticalDistance(G.dt)

\* Crowd.cpp:268-279  the loop over a2 for a fixed a1
RECURSIVE pairsOfAgent(_, _, _, _)
pairsOfAgent(G, ags, a1, a2) ==
    IF a2 >= G.nAgents THEN ags
    ELSE pairsOfAgent(G,
             IF areNeighbours(G, ags[a1], ags[a2])
             THEN [ags EXCEPT ![a1]._neighbours = Append(@, ags[a2]._id),
                              ![a2]._neighbours = Append(@, ags[a1]._id)]
             ELSE ags,
             a1, a2 + 1)

\* Crowd.cpp:253-280  the loop over a1
RECURSIVE neighboursFrom(_, _, _)
neighboursFrom(G, ags, a1) ==
    IF a1 >= G.nAgents THEN ags
    ELSE LET withWalls == [ags EXCEPT ![a1]._neighbours_walls =
                                          wallsOfAgent(G, ags[a1], 0, @)]
         IN  neighboursFrom(G, pairsOfAgent(G, withWalls, a1, a1 + 1), a1 + 1)

determine_agents_neighbours(G) == [G EXCEPT !.agents = neighboursFrom(G, G.agents, 0)]

\* setDynamics storing the orientation of the record as the initial one too
setDynamics_resettingThetaInit(G, a, position, velocity, theta, omega, Fp, Mp) ==
    LET old == G.agents[a]
        vx_des == (Fp[1] \div G.agentProperties[a + 1][1]) \div old._mass
        vy_des == (Fp[2] \div G.agentProperties[a + 1][1]) \div old._mass
        w_des == (Mp \div G.agentProperties[a + 1][2]) \div old._moi
    IN  [old EXCEPT !._x = position[1], !._y = position[2], !._theta = theta,
                    !._theta_init = theta,
                    !._vx = velocity[1], !._vy = velocity[2], !._w = omega,
                    !._vx_des = vx_des, !._vy_des = vy_des, !._w_des = w_des,
                    !._theta_des = IF ~(vx_des = 0 /\ vy_des = 0) THEN atan2(vy_des, vx_des)
                                   ELSE 0,
                    !._v_des = <<vx_des, vy_des>>,
                    !._neighbours = <<>>]

\* Crowd.cpp:205-222  the assignments of one accepted entry to agents[a]
setDynamics(G, a, position, velocity, theta, omega, Fp, Mp) ==
    LET inverseTauMechTranslation == G.agentProperties[a + 1][1]
        inverseTauMechRotation == G.agentProperties[a + 1][2]
        old == G.agents[a]
        vx_des == (Fp[1] \div inverseTauMechTranslation) \div old._mass
        vy_des == (Fp[2] \div inverseTauMechTranslation) \div old._mass
        w_des == (Mp \div inverseTauMechRotation) \div old._moi
    IN  [old EXCEPT !._x = position[1],
                    !._y = position[2],
                    !._theta = theta,
                    !._vx = velocity[1],
                    !._vy = velocity[2],
                    !._w = omega,
                    !._vx_des = vx_des,
                    !._vy_des = vy_des,
                    !._w_des = w_des,
                    !._theta_des = IF ~(vx_des = 0 /\ vy_des = 0) THEN atan2(vy_des, vx_des)
                                   ELSE 0,
                    !._v_des = <<vx_des, vy_des>>,
                    !._neighbours = <<>>]

\* Crowd.cpp:126-226  the loop over the Agent elements; st = [rc, G, agentCounter]
RECURSIVE updateEntries(_, _, _, _)
updateEntries(entries, k, st, u) ==
    IF k > Len(entries) THEN st
    ELSE
    LET e == entries[k]
        failed == [st EXCEPT !.rc = EXIT_FAILURE]
    IN  IF ~e.Id.present THEN failed
        ELSE IF e.Id.v \notin DOMAIN st.G.agentMap THEN failed
        ELSE IF ~e.hasKinematics THEN failed
        ELSE IF ~e.Position.present THEN failed
        ELSE
        LET a == st.G.agentMap[e.Id.v]
            pos == parse2DComponents(e.Position.v, u)
        IN  IF pos[1] # EXIT_SUCCESS THEN failed
            ELSE IF ~e.Velocity.present THEN failed
            ELSE
            LET vel == parse2DComponents(e.Velocity.v, u)
            IN  IF vel[1] # EXIT_SUCCESS THEN failed
                ELSE
                LET theta == IF e.Theta.present THEN e.Theta.v ELSE u
                    omega == IF e.Omega.present THEN e.Omega.v ELSE u
                IN  IF ~e.hasDynamics THEN failed
                    ELSE IF ~e.Fp.present THEN failed
                    ELSE
                    LET Fp == parse2DComponents(e.Fp.v, u)
                    IN  IF Fp[1] # EXIT_SUCCESS THEN failed
                        ELSE IF ~e.Mp.present THEN failed
                        ELSE updateEntries(entries, k + 1,
                                 [st EXCEPT !.G.agents[a] =
                                                setDynamics(st.G, a, pos[2], vel[2], theta,
                                                            omega, Fp[2], e.Mp.v),
                                            !.agentCounter = @ + 1], u)

\* updateSetting; returns [rc, G]
updateSetting(dynamicsFile, G, u) ==
    IF ~dynamicsFile.loads \/ Len(dynamicsFile.Agents) = 0
    THEN [rc |-> EXIT_FAILURE, G |-> G]
    ELSE LET st == updateEntries(dynamicsFile.Agents, 1,
                       [rc |-> EXIT_SUCCESS, G |-> G, agentCounter |-> 0], u)
         IN  IF st.rc # EXIT_SUCCESS THEN [rc |-> EXIT_FAILURE, G |-> st.G]
             ELSE IF st.agentCounter < st.G.nAgents THEN [rc |-> EXIT_FAILURE, G |-> st.G]
             ELSE [rc |-> EXIT_SUCCESS, G |-> determine_agents_neighbours(st.G)]

\* Crowd.cpp:74-87  agent a as initialiseSetting creates it
createAgent(a, r, u) ==
    LET first == r.edges[a + 1]
        last == r.edges[a + 2]
        delta_gtos_curr == Slice(r.delta_gtos, first, last)
        shoulders_direction == Sub2(r.delta_gtos[last], r.delta_gtos[first + 1])
        orientation_vec == <<-shoulders_direction[2], shoulders_direction[1]>>
        theta_body_init == IF ~(orientation_vec[1] = 0 /\ orientation_vec[2] = 0)
                           THEN atan2(orientation_vec[2], orientation_vec[1])
                           ELSE 0
        radius_shapes == Slice(r.radii, first, last)
        Ids_shapes_agent == [i \in 1..(last - first) |-> first + i - 1]
    IN  Agent(a, Ids_shapes_agent, r.nShapesPerAgent[a + 1], delta_gtos_curr, radius_shapes,
              theta_body_init, r.masses[a + 1], r.mois[a + 1], u)

\* Crowd.cpp:62-88  the agent table initialiseSetting allocates and fills
createAgents(r, u) == [a \in 0..(r.G.nAgents - 1) |-> createAgent(a, r, u)]

\* initialiseSetting, r being what readAgents returned; returns [rc, G]
initialiseSetting(dynamicsFile, r, u) ==
    updateSetting(dynamicsFile, [r.G EXCEPT !.agents = createAgents(r, u)], u)

\* Crowd.cpp:330
is_mechanically_active(active, agent) == Contains(active, agent._id)

\* push_back(agent) unless it is in the list already
pushIfInactive(active, agent) ==
    IF ~is_mechanically_active(active, agent) THEN Append(active, agent._id) ELSE active

\* a projection along the current velocity instead of the desired one
project_alongVelocity(agent, step) ==
    [agent EXCEPT !._x = @ + agent._vx * step,
                  !._y = @ + agent._vy * step,
                  !._theta = @ + agent._w * step]

\* Crowd.cpp:340-347  the tentative positions
project(agent, step) ==
    [agent EXCEPT !._x = @ + agent._vx_des * step,
                  !._y = @ + agent._vy_des * step,
                  !._theta = @ + agent._w_des * step]

\* a revert that restores the orientation only
revert_orientationOnly(agent, step) ==
    [agent EXCEPT !._theta = @ - agent._w_des * step]

\* Crowd.cpp:377-384
revert(agent, step) ==
    [agent EXCEPT !._x = @ - agent._vx_des * step,
                  !._y = @ - agent._vy_des * step,
                  !._theta = @ - agent._w_des * step]

\* Crowd.cpp:357-358  the test of one wall neighbour
overlapsWall(G, agent1, wall) ==
    LET iobs == wall[1]
        iwall == wall[2]
        sum == Add2(G.listObstacles[iobs + 1][iwall + 1], G.listObstacles[iobs + 1][iwall + 2])
        middlePointWall == <<sum[1] \div 2, sum[2] \div 2>>
    IN  Norm2(Sub2(get_r(agent1), middlePointWall)) < agent1._radius + OverlapMargin

\* Crowd.cpp:365-366  the test of one agent neighbour
overlapsAgent(agent1, agent2) ==
    Norm2(Sub2(get_r(agent1), get_r(agent2)))
        < Abs(agent1._radius + agent2._radius) + OverlapMargin

\* Crowd.cpp:355-361
RECURSIVE scanWalls(_, _, _, _)
scanWalls(G, agent1, k, active) ==
    IF k > Len(agent1._neighbours_walls) THEN active
    ELSE scanWalls(G, agent1, k + 1,
             IF overlapsWall(G, agent1, agent1._neighbours_walls[k])
             THEN pushIfInactive(active, agent1) ELSE active)

\* a scan of the agent neighbours that pushes agent2 without the test of
\* is_mechanically_active
RECURSIVE scanNeighbours_unguarded(_, _, _, _)
scanNeighbours_unguarded(G, agent1, k, active) ==
    IF k > Len(agent1._neighbours) THEN active
    ELSE LET agent2 == G.agents[agent1._neighbours[k]]
         IN  scanNeighbours_unguarded(G, agent1, k + 1,
                 IF overlapsAgent(agent1, agent2)
                 THEN Append(pushIfInactive(active, agent1), agent2._id)
                 ELSE active)

\* Crowd.cpp:363-373
RECURSIVE scanNeighbours(_, _, _, _)
scanNeighbours(G, agent1, k, active) ==
    IF k > Len(agent1._neighbours) THEN active
    ELSE LET agent2 == G.agents[agent1._neighbours[k]]
         IN  scanNeighbours(G, agent1, k + 1,
                 IF overlapsAgent(agent1, agent2)
                 THEN pushIfInactive(pushIfInactive(active, agent1), agent2)
                 ELSE active)

\* Crowd.cpp:351-374
RECURSIVE scanOverlaps(_, _, _)
scanOverlaps(G, a, active) ==
    IF a >= G.nAgents THEN active
    ELSE scanOverlaps(G, a + 1,
             scanNeighbours(G, G.agents[a], 1, scanWalls(G, G.agents[a], 1, active)))

\* a mismatch test that looks at the angular velocity only
velocityMismatch_angularOnly(agent) ==
    (agent._w - agent._w_des) * (agent._w - agent._w_des) > MismatchThreshold

\* Crowd.cpp:390  the mismatch test of one agent
velocityMismatch(agent) ==
    (agent._vx - agent._vx_des) * (agent._vx - agent._vx_des)
        + (agent._vy - agent._vy_des) * (agent._vy - agent._vy_des)
        + (agent._w - agent._w_des) * (agent._w - agent._w_des) > MismatchThreshold

\* Crowd.cpp:387-393
RECURSIVE scanMismatch(_, _, _)
scanMismatch(G, a, active) ==
    IF a >= G.nAgents THEN active
    ELSE scanMismatch(G, a + 1,
             IF velocityMismatch(G.agents[a]) THEN pushIfInactive(active, G.agents[a])
             ELSE active)

\* Crowd.cpp:398-402  the neighbours of one listed agent
RECURSIVE closeOne(_, _, _, _)
closeOne(G, agent, k, active) ==
    IF k > Len(agent._neighbours) THEN active
    ELSE closeOne(G, agent, k + 1, pushIfInactive(active, G.agents[agent._neighbours[k]]))

\* Crowd.cpp:396-403  the range-for over the list that grows while it is walked
RECURSIVE closeNeighbours(_, _, _)
closeNeighbours(G, pos, active) ==
    IF pos > Len(active) THEN active
    ELSE closeNeighbours(G, pos + 1, closeOne(G, G.agents[active[pos]], 1, active))

\* get_future_collision; returns [ret, G]
get_future_collision(G) ==
    LET projected == [G EXCEPT !.agents = [a \in DOMAIN G.agents |-> project(G.agents[a], G.dt)]]
        overlapping == scanOverlaps(projected, 0, <<>>)
        reverted == [projected EXCEPT !.agents =
                        [a \in DOMAIN G.agents |-> revert(projected.agents[a], G.dt)]]
        mismatched == scanMismatch(reverted, 0, overlapping)
        active == closeNeighbours(reverted, 1, mismatched)
    IN  [ret |-> active # <<>>,
         G |-> [reverted EXCEPT !.mech_active_agents = active]]

\* the kinematic step taken with the velocity before the relaxation
relax_moveFirst(G, agent) ==
    LET dT == expNegDen(G.dt, G.agentProperties[agent._id + 1][1])
        dR == expNegDen(G.dt, G.agentProperties[agent._id + 1][2])
        moved == move(agent, G.dt)
    IN  [moved EXCEPT !._vx = ((dT - 1) * agent._vx_des + agent._vx) \div dT,
                      !._vy = ((dT - 1) * agent._vy_des + agent._vy) \div dT,
                      !._w = ((dR - 1) * agent._w_des + agent._w) \div dR]

\* Crowd.cpp:311-316  the relaxation and move of one inactive agent
relax(G, agent) ==
    LET inverseTauMechTranslation == G.agentProperties[agent._id + 1][1]
        inverseTauMechRotation == G.agentProperties[agent._id + 1][2]
        dT == expNegDen(G.dt, inverseTauMechTranslation)
        dR == expNegDen(G.dt, inverseTauMechRotation)
        relaxed == [agent EXCEPT !._vx = ((dT - 1) * agent._vx_des + agent._vx) \div dT,
                                 !._vy = ((dT - 1) * agent._vy_des + agent._vy) \div dT,
                                 !._w = ((dR - 1) * agent._w_des + agent._w) \div dR]
    IN  move(relaxed, G.dt)

\* a passive stage that relaxes every agent, active or not
passiveUpdate_everyAgent(G) ==
    [G EXCEPT !.agents = [a \in DOMAIN G.agents |-> relax(G, G.agents[a])]]

\* Crowd.cpp:304-317
passiveUpdate(G) ==
    [G EXCEPT !.agents = [a \in DOMAIN G.agents |->
                             IF is_mechanically_active(G.mech_active_agents, G.agents[a])
                             THEN G.agents[a] ELSE relax(G, G.agents[a])]]

\* operator<< of a double: six significant digits.  Every value of the model
\* below 100 units of its quantity has at most six, and is written exactly;
\* beyond, the grid below the sixth digit is lost.
formatDouble(v, unitsPerOne) ==
    LET RECURSIVE grid(_, _)
        grid(x, step) == IF Abs(x) < 100 * unitsPerOne * step THEN step
                         ELSE grid(x, 10 * step)
        keep == (grid(v, 1) * unitsPerOne) \div 10000
        q == IF keep <= 1 THEN 1 ELSE keep
    IN  IF v >= 0 THEN ((2 * v + q) \div (2 * q)) * q
        ELSE -(((2 * (-v) + q) \div (2 * q)) * q)

\* Crowd.cpp:426-441  the entry written for one entry of the input
outputEntry(G, inEntry) ==
    LET agent == G.agents[G.agentMap[inEntry.Id.v]]
    IN  [Id |-> inEntry.Id,
         hasKinematics |-> TRUE,
         Position |-> Att(Str2(formatDouble(agent._x, LenUnitsPerMetre),
                               formatDouble(agent._y, LenUnitsPerMetre))),
         Velocity |-> Att(Str2(formatDouble(agent._vx, VelUnitsPerMps),
                               formatDouble(agent._vy, VelUnitsPerMps))),
         Theta |-> Att(formatDouble(agent._theta, LenUnitsPerMetre)),
         Omega |-> Att(formatDouble(agent._w, VelUnitsPerMps)),
         hasDynamics |-> FALSE,
         Fp |-> NoAtt,
         Mp |-> NoAtt]

\* generateDynamicsOutputFile: the new content of the dynamics file
generateDynamicsOutputFile(G, dynamicsFile) ==
    [loads |-> TRUE,
     Agents |-> [k \in DOMAIN dynamicsFile.Agents |-> outputEntry(G, dynamicsFile.Agents[k])]]

(***************************************************************************)
(* The contact resolver (MechanicalLayer.h is not part of the sources).    *)
(* Section 4.8 of the specification: the resolver integrates the active    *)
(* agents over dt and writes their kinematic members only.  The resultant  *)
(* of the contact forces is abstracted to a velocity offset, kick, from    *)
(* the desired velocity.                                                   *)
(***************************************************************************)
resolve(agent, kick, step) ==
    move([agent EXCEPT !._vx = agent._vx_des + kick[1],
                       !._vy = agent._vy_des + kick[2],
                       !._w = agent._w_des + kick[3]], step)

MechanicalLayer(G, kick) ==
    [G EXCEPT !.agents = [a \in DOMAIN G.agents |->
                             IF is_mechanically_active(G.mech_active_agents, G.agents[a])
                             THEN resolve(G.agents[a], kick, G.dt) ELSE G.agents[a]]]

(***************************************************************************)
(* Main.cpp:61-108                                                         *)
(***************************************************************************)
\* CrowdMechanics reading the static files on every call
loadAndUpdate_alwaysLoading(f, G, u, heap) ==
    LET p == readParameters(f.parameters, G)
        m == readMaterials(f.materials, p.G, heap)
        g == readGeometry(f.geometry, m.materialMapping, m.G, u)
        r == readAgents(f.agents, m.materialMapping, g.G, u)
        i == initialiseSetting(f.dynamics, r, u)
    IN  IF p.rc = EXIT_FAILURE THEN [rc |-> EXIT_FAILURE, G |-> p.G, fresh |-> <<>>]
        ELSE IF m.rc = EXIT_FAILURE THEN [rc |-> EXIT_FAILURE, G |-> m.G, fresh |-> <<>>]
        ELSE IF g.rc = EXIT_FAILURE THEN [rc |-> EXIT_FAILURE, G |-> g.G, fresh |-> <<>>]
        ELSE IF r.rc = EXIT_FAILURE THEN [rc |-> EXIT_FAILURE, G |-> r.G, fresh |-> <<>>]
        ELSE [rc |-> i.rc, G |-> i.G, fresh |-> createAgents(r, u)]

\* CrowdMechanics up to the call of handleMechanicalLayer.
\* Returns [rc, G, fresh]: fresh is the agent table this call created, if any.
loadAndUpdate(f, G, u, heap) ==
    LET p == readParameters(f.parameters, G)
    IN  IF p.rc = EXIT_FAILURE THEN [rc |-> EXIT_FAILURE, G |-> p.G, fresh |-> <<>>]
        ELSE IF p.G.loadStaticData
        THEN LET m == readMaterials(f.materials, p.G, heap)
             IN  IF m.rc = EXIT_FAILURE THEN [rc |-> EXIT_FAILURE, G |-> m.G, fresh |-> <<>>]
                 ELSE
                 LET g == readGeometry(f.geometry, m.materialMapping, m.G, u)
                 IN  IF g.rc = EXIT_FAILURE
                     THEN [rc |-> EXIT_FAILURE, G |-> g.G, fresh |-> <<>>]
                     ELSE
                     LET r == readAgents(f.agents, m.materialMapping, g.G, u)
                     IN  IF r.rc = EXIT_FAILURE
                         THEN [rc |-> EXIT_FAILURE, G |-> r.G, fresh |-> <<>>]
                         ELSE LET i == initialiseSetting(f.dynamics, r, u)
                              IN  [rc |-> i.rc, G |-> i.G, fresh |-> createAgents(r, u)]
        ELSE LET s == updateSetting(f.dynamics, p.G, u)
             IN  [rc |-> s.rc, G |-> s.G, fresh |-> <<>>]

(***************************************************************************)
(* The inputs the model explores                                           *)
(***************************************************************************)
Cm(n) == n * (LenUnitsPerMetre \div 100)

Dm(n) == n * (LenUnitsPerMetre \div 10)

Mps(n) == n * VelUnitsPerMps

\* values an uninitialised double may hold
IndeterminateDoubles == {-12, 20}

\* the cells new double[nMaterials] may hand out
MaxMaterials == 2

HeapCells == {<<p, i, j>> : p \in 0..(nBinaryProperties - 1),
                            i \in 0..(MaxMaterials - 1), j \in 0..(MaxMaterials - 1)}

UniformHeap(u) == [c \in HeapCells |-> u]

ParametersFile == [loads |-> TRUE, TimeStep |-> Att(1), TimeStepMechanical |-> Att(1)]

\* one material, E = 1e6, G = 4e5 in units of 1e5; gamma = 10, mu = 0.5 in tenths
MaterialsFile ==
    [loads |-> TRUE, hasIntrinsic |-> TRUE,
     Materials |-> << [Id |-> Att("skin"), YoungModulus |-> Att(10), ShearModulus |-> Att(4)] >>,
     hasBinary |-> TRUE,
     Contacts |-> << [Id1 |-> "skin", Id2 |-> "skin", GammaNormal |-> Att(100),
                      GammaTangential |-> Att(100), KineticFriction |-> Att(5)] >>]

Corner(x, y) == [Coordinates |-> Att(Str2(x, y))]

\* a 4 m x 4 m domain with one wall along x = 0, in two segments
GeometryFile ==
    [loads |-> TRUE, Lx |-> Att(Dm(40)), Ly |-> Att(Dm(40)),
     Walls |-> << [MaterialId |-> Att("skin"),
                   Corners |-> <<Corner(0, 0), Corner(0, Dm(20)), Corner(0, Dm(40))>>] >>]

Shape(id, r, x, y) ==
    [Id |-> Att(id), MaterialId |-> Att("skin"), Radius |-> Att(r), Position |-> Att(Str2(x, y))]

\* three agents: two discs, one disc, three discs
AgentsFile ==
    [loads |-> TRUE,
     Agents |-> <<
        [Id |-> Att("a"), Mass |-> Att(1), MomentOfInertia |-> Att(1),
         FloorDamping |-> Att(1), AngularDamping |-> Att(1),
         Shapes |-> <<Shape("l", Cm(10), -Cm(10), 0), Shape("r", Cm(10), Cm(10), 0)>>],
        [Id |-> Att("b"), Mass |-> Att(2), MomentOfInertia |-> Att(1),
         FloorDamping |-> Att(1), AngularDamping |-> Att(2),
         Shapes |-> <<Shape("c", Cm(15), 0, 0)>>],
        [Id |-> Att("c"), Mass |-> Att(1), MomentOfInertia |-> Att(2),
         FloorDamping |-> Att(2), AngularDamping |-> Att(1),
         Shapes |-> <<Shape("l", Cm(10), -Cm(15), 0), Shape("c", Cm(15), 0, 0),
                      Shape("r", Cm(10), Cm(15), 0)>>] >>]

AgentNames == <<"a", "b", "c">>

\* the state of one agent as the driver hands it over
Profile(x, y, vx, vy, w, vx_des, vy_des, w_des) ==
    [pos |-> <<x, y>>, vel |-> <<vx, vy>>, theta |-> 0, omega |-> w,
     v_des |-> <<vx_des, vy_des>>, w_des |-> w_des]

Rest(x, y) == Profile(x, y, 0, 0, 0, 0, 0, 0)

\* the scenes: one profile per agent of AgentsFile
Scenes == <<
    \* free: far from each other and from the wall, small velocity mismatches
    <<Profile(Dm(10), Dm(10), Mps(1), 0, 0, Mps(1) + 4, 0, 0),
      Profile(Dm(30), Dm(30), 0, Mps(1), 4, 0, Mps(1), 0),
      Rest(Dm(10), Dm(30))>>,
    \* a and b 0.2 m apart across the boundary, the lower id on the low side
    <<Rest(Dm(1), Dm(20)), Rest(Dm(39), Dm(20)), Rest(Dm(20), Dm(5))>>,
    \* the same, the lower id on the high side
    <<Rest(Dm(39), Dm(20)), Rest(Dm(1), Dm(20)), Rest(Dm(20), Dm(5))>>,
    \* a and b walking into each other
    <<Profile(Dm(15), Dm(10), Mps(1), 0, 0, Mps(1), 0, 0),
      Profile(Dm(20), Dm(10), -Mps(1), 0, 0, -Mps(1), 0, 0),
      Rest(Dm(30), Dm(30))>>,
    \* a row a - b - c, 1 m apart, a asked to start walking
    <<Profile(Dm(10), Dm(10), 0, 0, 0, Mps(1), 0, 0),
      Rest(Dm(20), Dm(10)), Rest(Dm(30), Dm(10))>>,
    \* a at rest beside the middle of the lower wall segment
    <<Rest(Dm(1), Dm(10)), Rest(Dm(30), Dm(30)), Rest(Dm(20), Dm(5))>>,
    \* a and b approaching at their desired velocities, 0.7 m apart
    <<Profile(Dm(13), Dm(10), Mps(1), 0, 0, Mps(1), 0, 0),
      Profile(Dm(20), Dm(10), -Mps(1), 0, 0, -Mps(1), 0, 0),
      Rest(Dm(30), Dm(30))>>,
    \* c 1 m from the wall, moving towards it at 1 m/s with no driving force
    <<Rest(Dm(30), Dm(30)), Rest(Dm(30), Dm(10)),
      Profile(Dm(10), Dm(10), -Mps(1), 0, 0, 0, 0, 0)>>,
    \* a at rest 0.1 m from the lower wall segment across the periodic boundary
    <<Rest(Dm(39), Dm(10)), Rest(Dm(20), Dm(30)), Rest(Dm(20), Dm(10))>>,
    \* a and b running into each other at vMaxAgent, 1.5 m apart
    <<Profile(Dm(10), Dm(10), vMaxAgent, 0, 0, vMaxAgent, 0, 0),
      Profile(Dm(25), Dm(10), -vMaxAgent, 0, 0, -vMaxAgent, 0, 0),
      Rest(Dm(30), Dm(30))>> >>

\* the entry the driver writes for agent number i (1-based) of AgentsFile
Entry(i, p) ==
    LET def == AgentsFile.Agents[i]
    IN  [Id |-> Att(AgentNames[i]),
         hasKinematics |-> TRUE,
         Position |-> Att(Str2(p.pos[1], p.pos[2])),
         Velocity |-> Att(Str2(p.vel[1], p.vel[2])),
         Theta |-> Att(p.theta),
         Omega |-> Att(p.omega),
         hasDynamics |-> TRUE,
         Fp |-> Att(Str2(p.v_des[1] * def.FloorDamping.v * def.Mass.v,
                         p.v_des[2] * def.FloorDamping.v * def.Mass.v)),
         Mp |-> Att(p.w_des * def.AngularDamping.v * def.MomentOfInertia.v)]

\* the dynamics files built from one scene
Variants(sc) ==
    LET a == Entry(1, sc[1])
        b == Entry(2, sc[2])
        c == Entry(3, sc[3])
    IN  { <<a, b, c>>,
          <<c, b, a>>,
          \* c left out, a given twice
          <<a, a, b>>,
          \* too few entries
          <<a, b>>,
          \* an agent the agents file does not define
          <<a, [b EXCEPT !.Id = Att("z")], c>>,
          <<a, [b EXCEPT !.hasKinematics = FALSE], c>>,
          <<a, b, [c EXCEPT !.Fp = Att(<<BadTok, Tok(0)>>)]>>,
          <<[a EXCEPT !.Mp = NoAtt], b, c>>,
          \* the orientation of b not given
          <<a, [b EXCEPT !.Theta = NoAtt], c>> }

DynamicsFiles ==
    {[loads |-> TRUE, Agents |-> v] : v \in UNION {Variants(Scenes[k]) : k \in DOMAIN Scenes}}

\* resultants of the contact forces the resolver may arrive at
Kicks == {<<0, 0, 0>>, <<-8, 0, 0>>}

\* calls of CrowdMechanics in one run
MaxCalls == 2

(***************************************************************************)
(* The program as a state machine                                          *)
(***************************************************************************)
Globals ==
    [loadStaticData |-> loadStaticData, dt |-> dt, Lx |-> Lx, Ly |-> Ly,
     listObstacles |-> listObstacles, obstaclesMaterial |-> obstaclesMaterial,
     nMaterials |-> nMaterials, intrinsicProperties |-> intrinsicProperties,
     binaryProperties |-> binaryProperties, nAgents |-> nAgents, agentMap |-> agentMap,
     agentMapInverse |-> agentMapInverse, agentProperties |-> agentProperties,
     agents |-> agents, mech_active_agents |-> mech_active_agents]

SetGlobals(G) ==
    /\ loadStaticData' = G.loadStaticData
    /\ dt' = G.dt
    /\ Lx' = G.Lx
    /\ Ly' = G.Ly
    /\ listObstacles' = G.listObstacles
    /\ obstaclesMaterial' = G.obstaclesMaterial
    /\ nMaterials' = G.nMaterials
    /\ intrinsicProperties' = G.intrinsicProperties
    /\ binaryProperties' = G.binaryProperties
    /\ nAgents' = G.nAgents
    /\ agentMap' = G.agentMap
    /\ agentMapInverse' = G.agentMapInverse
    /\ agentProperties' = G.agentProperties
    /\ agents' = G.agents
    /\ mech_active_agents' = G.mech_active_agents

\* the globals before the first call (Global.cpp:65-92, Crowd.cpp:38), but
\* for the domain lengths
InitTables ==
    /\ loadStaticData = TRUE
    /\ dt = 0
    /\ listObstacles = <<>>
    /\ obstaclesMaterial = <<>>
    /\ nMaterials = 0
    /\ intrinsicProperties = <<>>
    /\ binaryProperties = <<>>
    /\ nAgents = 0
    /\ agentMap = [id \in {} |-> 0]
    /\ agentMapInverse = <<>>
    /\ agentProperties = <<>>
    /\ agents = <<>>
    /\ mech_active_agents = <<>>

InitGlobals ==
    /\ InitTables
    /\ Lx = 0
    /\ Ly = 0

\* the files on disk and the driver before its first call
InitDriver ==
    /\ pc = "idle"
    /\ rc = EXIT_SUCCESS
    /\ calls = 0
    /\ files = [parameters |-> ParametersFile, materials |-> MaterialsFile,
                geometry |-> GeometryFile, agents |-> AgentsFile,
                dynamics |-> [loads |-> FALSE, Agents |-> <<>>]]
    /\ prev = <<>>
    /\ created = <<>>

Init ==
    /\ InitDriver
    /\ InitGlobals
    /\ probe = <<>>

\* Main.cpp:61-101  the driver has written the dynamics file d and calls
\* CrowdMechanics; the call runs up to handleMechanicalLayer or returns failure
CallCrowdMechanics(d, u) ==
    /\ pc = "idle"
    /\ calls < MaxCalls
    /\ \E f \in {[files EXCEPT !.dynamics = d]} :
       \E res \in {loadAndUpdate(f, Globals, u, UniformHeap(u))} :
           /\ files' = f
           /\ SetGlobals(res.G)
           /\ rc' = res.rc
           /\ pc' = IF res.rc = EXIT_FAILURE THEN "idle" ELSE "predict"
           /\ created' = IF created = <<>> /\ res.fresh # <<>>
                         THEN [a \in DOMAIN res.fresh |-> Immutable(res.fresh[a])]
                         ELSE created
    /\ calls' = calls + 1
    /\ prev' = agents
    /\ UNCHANGED probe

\* Crowd.cpp:297  get_future_collision
Predict ==
    /\ pc = "predict"
    /\ \E res \in {get_future_collision(Globals)} :
           /\ SetGlobals(res.G)
           /\ pc' = IF res.ret THEN "resolve" ELSE "relax"
    /\ UNCHANGED <<rc, calls, files, histVars, probe>>

\* Crowd.cpp:299-300  the mechanical layer on the active agents
Resolve(kick) ==
    /\ pc = "resolve"
    /\ SetGlobals(MechanicalLayer(Globals, kick))
    /\ pc' = "relax"
    /\ UNCHANGED <<rc, calls, files, histVars, probe>>

\* Crowd.cpp:303-320, Main.cpp:106-107
RelaxAndPublish ==
    /\ pc = "relax"
    /\ \E G \in {passiveUpdate(Globals)} :
           /\ SetGlobals([G EXCEPT !.loadStaticData = FALSE])
           /\ files' = [files EXCEPT !.dynamics = generateDynamicsOutputFile(G, @)]
    /\ rc' = EXIT_SUCCESS
    /\ pc' = "idle"
    /\ UNCHANGED <<calls, histVars, probe>>

Next ==
    \/ \E d \in DynamicsFiles, u \in IndeterminateDoubles : CallCrowdMechanics(d, u)
    \/ Predict
    \/ \E kick \in Kicks : Resolve(kick)
    \/ RelaxAndPublish

Spec == Init /\ [][Next]_vars

(***************************************************************************)
(* Properties of a call of CrowdMechanics                                  *)
(***************************************************************************)
\* the agents the dynamics file of the current call names, entry by entry
ListedIds == [k \in DOMAIN files.dynamics.Agents |-> files.dynamics.Agents[k].Id.v]

\* the dynamics file of the current call names every agent exactly once
EveryAgentListedOnce ==
    \A a \in DOMAIN agentMapInverse : Count(ListedIds, agentMapInverse[a]) = 1

\* the macro step before the current call had completed
AfterCompletedStep == ~loadStaticData /\ DOMAIN prev = DOMAIN agents

\* C1: whenever a call rejects the dynamics file, every agent's mutable fields
\* (position, velocity, orientation, angular velocity, desired velocities,
\* desired orientation) still hold the values they had after the previous
\* macro step
C1_FailureLeavesAgentsUntouched ==
    (pc = "idle" /\ rc = EXIT_FAILURE /\ AfterCompletedStep)
        => \A a \in DOMAIN agents : Mutable(agents[a]) = Mutable(prev[a])

\* the shortest way from A to B on the torus, squared
MinImage(d, length) ==
    LET m == d % length IN IF m <= length - m THEN m ELSE length - m

ToroidalDistanceSquared(A, B) ==
    MinImage(A[1] - B[1], Lx) * MinImage(A[1] - B[1], Lx)
        + MinImage(A[2] - B[2], Ly) * MinImage(A[2] - B[2], Ly)

\* C3: after the neighbourhood builder has run on a file naming every agent
\* once, for any two distinct agents i and j, j is in i's neighbour list exactly
\* when their toroidal centre-of-mass distance is below 2 * dt * vMaxAgent
C3_NeighboursAreThoseWithinCutoff ==
    (pc = "predict" /\ EveryAgentListedOnce)
        => \A i, j \in DOMAIN agents :
               i # j => (Contains(agents[i]._neighbours, agents[j]._id)
                           <=> ToroidalDistanceSquared(get_r(agents[i]), get_r(agents[j]))
                                 < criticalDistance(dt) * criticalDistance(dt))

\* the wall segments of the geometry, as (obstacle, segment) pairs
WallSegments ==
    {<<iobs, iwall>> : iobs \in 0..(Len(listObstacles) - 1), iwall \in 0..1} \cap
    {w \in (0..(Len(listObstacles) - 1)) \X (0..1) : w[2] < Len(listObstacles[w[1] + 1]) - 1}

DistanceToSegment(agent, w) ==
    get_distance_to_wall_and_closest_point(listObstacles[w[1] + 1][w[2] + 1],
                                           listObstacles[w[1] + 1][w[2] + 2],
                                           get_r(agent))[1]

\* C4: when the predictor is entered, an agent's wall-neighbour list holds
\* exactly the wall segments whose distance to the agent's centre of mass is
\* below dt * vMaxAgent, each of them once; nothing of an earlier macro step
\* is left in it
C4_WallNeighboursAreThoseWithinCutoff ==
    pc = "predict"
        => \A a \in DOMAIN agents : \A w \in WallSegments :
               Count(agents[a]._neighbours_walls, w)
                   = IF DistanceToSegment(agents[a], w) < criticalDistanceWall(dt)
                     THEN 1 ELSE 0

\* the predictor has returned and nothing has run since
JustPredicted == pc = "resolve" \/ (pc = "relax" /\ mech_active_agents = <<>>)

C8_ImmutablesKeepCreationValues ==
    created # <<>>
        => /\ DOMAIN agents = DOMAIN created
           /\ \A a \in DOMAIN agents : Immutable(agents[a]) = created[a]

\* a second call that failed after rewriting some agent
C8_Witness ==
    /\ created # <<>>
    /\ ~loadStaticData
    /\ pc = "idle" /\ rc = EXIT_FAILURE
    /\ \E a \in DOMAIN agents : Mutable(agents[a]) # Mutable(prev[a])

\* C9: in a macro step with an empty active set every agent ends with
\* v_new = v_des * (1 - e) + v_old * e in both components, e = exp(-dt / tau_t),
\* w_new = w_des * (1 - e_r) + w_old * e_r, e_r = exp(-dt / tau_r), position
\* = old position + v_new * dt and theta = old theta + w_new * dt.  With
\* e = 1 / D the first is D * v_new = (D - 1) * v_des + v_old.
C9_PassiveStepRelaxesThenMoves ==
    [][(pc = "relax" /\ mech_active_agents = <<>>)
          => \A a \in DOMAIN agents :
                 LET old == agents[a]
                     new == agents'[a]
                     D == pow2(dt * AgentsFile.Agents[a + 1].FloorDamping.v)
                     Dr == pow2(dt * AgentsFile.Agents[a + 1].AngularDamping.v)
                 IN  /\ D * new._vx = (D - 1) * old._vx_des + old._vx
                     /\ D * new._vy = (D - 1) * old._vy_des + old._vy
                     /\ Dr * new._w = (Dr - 1) * old._w_des + old._w
                     /\ new._x = old._x + new._vx * dt
                     /\ new._y = old._y + new._vy * dt
                     /\ new._theta = old._theta + new._w * dt]_vars

\* a passive step has ended with agents still short of their desired velocities
C9_Witness ==
    /\ pc = "idle" /\ rc = EXIT_SUCCESS /\ ~loadStaticData
    /\ mech_active_agents = <<>>
    /\ \E a \in DOMAIN agents : agents[a]._vx # agents[a]._vx_des
    /\ \E a \in DOMAIN agents : agents[a]._w # agents[a]._w_des

(***************************************************************************)
(* The enclosing radius the constructor of Agent stores                    *)
(***************************************************************************)
\* offsets whose norm is a whole number of length units, and signed radii
ShapeOffsets == {<<0, 0>>, <<Cm(10), 0>>, <<0, -Cm(20)>>, <<Cm(30), Cm(40)>>}

ShapeRadii == {Cm(10), -Cm(10), Cm(25)}

ShapeLayouts ==
    {<<sh>> : sh \in ShapeOffsets \X ShapeRadii}
        \cup {<<s1, s2>> : s1 \in ShapeOffsets \X ShapeRadii, s2 \in ShapeOffsets \X ShapeRadii}

AgentInit ==
    /\ InitDriver
    /\ InitGlobals
    /\ \E layout \in ShapeLayouts :
           probe = [delta_gtos |-> [i \in DOMAIN layout |-> layout[i][1]],
                    radius_shapes |-> [i \in DOMAIN layout |-> layout[i][2]],
                    built |-> <<>>]

\* Agent.cpp:77-89  the constructor on the layout of the probe
ConstructAgent(u) ==
    /\ probe.built = <<>>
    /\ probe' = [probe EXCEPT !.built =
                    <<Agent(0, [i \in DOMAIN probe.delta_gtos |-> i - 1],
                            Len(probe.delta_gtos), probe.delta_gtos, probe.radius_shapes,
                            0, 1, 1, u)>>]
    /\ UNCHANGED <<pc, rc, calls, files, progVars, histVars>>

AgentNext == \E u \in IndeterminateDoubles : ConstructAgent(u)

SpecAgent == AgentInit /\ [][AgentNext]_vars

\* max over the shapes i of |delta_i| + |r_i|
MaxReach(delta_gtos, radius_shapes) ==
    LET sums == {Norm2(delta_gtos[i]) + Abs(radius_shapes[i]) : i \in DOMAIN delta_gtos}
    IN  CHOOSE m \in sums : \A n \in sums : n <= m

\* C2: the enclosing radius an agent stores is the maximum over its shapes i
\* of |delta_i| + |r_i|, for every layout of shapes, also when the shape
\* farthest from the centre of mass is not the one with the largest sum
C2_RadiusIsMaxReach ==
    probe.built # <<>>
        => probe.built[1]._radius = MaxReach(probe.delta_gtos, probe.radius_shapes)

(***************************************************************************)
(* get_distance on points of the domain                                    *)
(***************************************************************************)
DomainCoordinates == {Dm(1), Dm(15), Dm(25), Dm(39)}

DistanceInit ==
    /\ InitDriver
    /\ InitTables
    /\ Lx = GeometryFile.Lx.v
    /\ Ly = GeometryFile.Ly.v
    /\ \E A, B \in DomainCoordinates \X DomainCoordinates :
           probe = [A |-> A, B |-> B, measured |-> <<>>]

\* Global.cpp:177-182  get_distance called both ways round
MeasureDistance ==
    /\ probe.measured = <<>>
    /\ probe' = [probe EXCEPT !.measured =
                    <<[components |-> get_distance_components(probe.A, probe.B, Lx, Ly),
                       AB |-> get_distance(probe.A, probe.B, Lx, Ly),
                       BA |-> get_distance(probe.B, probe.A, Lx, Ly)]>>]
    /\ UNCHANGED <<pc, rc, calls, files, progVars, histVars>>

DistanceNext == MeasureDistance

SpecDistance == DistanceInit /\ [][DistanceNext]_vars

\* C5: get_distance is the minimum-image distance of the torus: for points A
\* and B of the domain each wrapped component of A - B lies in [-L/2, L/2], and
\* get_distance(A, B) = get_distance(B, A)
C5_DistanceIsMinimumImage ==
    probe.measured # <<>>
        => LET m == probe.measured[1]
           IN  /\ 2 * Abs(m.components[1]) <= Lx
               /\ 2 * Abs(m.components[2]) <= Ly
               /\ m.AB = m.BA

(***************************************************************************)
(* readMaterials on materials files with two materials                     *)
(***************************************************************************)
MaterialIds == <<"skin", "stone">>

ContactRecords ==
    {[Id1 |-> MaterialIds[i], Id2 |-> MaterialIds[j], GammaNormal |-> Att(g),
      GammaTangential |-> Att(g), KineticFriction |-> Att(5)] :
        i \in 1..2, j \in 1..2, g \in {100, 50}}

\* (E, G) of skin and of stone: ordinary values, E = 4 G for both, E = 6 G for both
ElasticSets == {<<10, 4, 20, 8>>, <<16, 4, 32, 8>>, <<24, 4, 48, 8>>}

MaterialsFiles ==
    {[loads |-> TRUE, hasIntrinsic |-> TRUE,
      Materials |-> << [Id |-> Att("skin"), YoungModulus |-> Att(el[1]),
                        ShearModulus |-> Att(el[2])],
                       [Id |-> Att("stone"), YoungModulus |-> Att(el[3]),
                        ShearModulus |-> Att(el[4])] >>,
      hasBinary |-> TRUE,
      Contacts |-> cs] :
        el \in ElasticSets,
        cs \in {<<c>> : c \in ContactRecords}
                 \cup {<<c1, c2>> : c1 \in ContactRecords, c2 \in ContactRecords}}

\* what the cells of the freshly allocated arrays may hold
Heaps ==
    {UniformHeap(u) : u \in IndeterminateDoubles}
        \cup {[c \in HeapCells |-> IF c[2] <= c[3] THEN -12 ELSE 20]}

MaterialsInit ==
    /\ InitDriver
    /\ InitGlobals
    /\ \E f \in MaterialsFiles, heap \in Heaps :
           probe = [file |-> f, heap |-> heap, loaded |-> FALSE]

\* Main.cpp:79  readMaterials on the file of the probe
LoadMaterials ==
    /\ ~probe.loaded
    /\ \E res \in {readMaterials(probe.file, Globals, probe.heap)} :
           /\ SetGlobals(res.G)
           /\ rc' = res.rc
    /\ probe' = [probe EXCEPT !.loaded = TRUE]
    /\ UNCHANGED <<pc, calls, files, histVars>>

MaterialsNext == LoadMaterials

SpecMaterials == MaterialsInit /\ [][MaterialsNext]_vars

\* C10: after a successful load each of the five material-pair matrices is
\* symmetric, M[i][j] = M[j][i] for all material indices i and j, whatever the
\* Contact records are: a pair given both ways round with different values, a
\* pair given no record
C10_PairMatricesSymmetric ==
    (probe.loaded /\ rc = EXIT_SUCCESS)
        => \A p \in 0..(nBinaryProperties - 1) : \A i, j \in 0..(nMaterials - 1) :
               binaryProperties[p][i][j] = binaryProperties[p][j][i]

(***************************************************************************)
(* Properties of the input checks                                          *)
(***************************************************************************)
\* every attribute and element updateSetting reads from entry e is there
HasRequiredAttributes(e) ==
    /\ e.Id.present
    /\ e.hasKinematics /\ e.Position.present /\ e.Velocity.present
    /\ e.Theta.present /\ e.Omega.present
    /\ e.hasDynamics /\ e.Fp.present /\ e.Mp.present

\* C11: a dynamics entry that lacks a required attribute, Theta and Omega of
\* Kinematics like Position, Velocity, Fp and Mp, makes the call return
\* nonzero without advancing the simulation: a call that goes on to the
\* predictor has read a file all of whose entries are complete
C11_MissingAttributeRejects ==
    pc = "predict"
        => \A k \in DOMAIN files.dynamics.Agents :
               HasRequiredAttributes(files.dynamics.Agents[k])

\* some Contact record of the file names materials number i and j, in either order
PairGiven(file, i, j) ==
    \E k \in DOMAIN file.Contacts :
        LET id1 == file.Contacts[k].Id1
            id2 == file.Contacts[k].Id2
            mi == file.Materials[i + 1].Id.v
            mj == file.Materials[j + 1].Id.v
        IN  (id1 = mi /\ id2 = mj) \/ (id1 = mj /\ id2 = mi)

\* C12: the materials load succeeds only if the Contact records supply
\* gamma_n, gamma_t and mu for every pair (i, j) of defined materials, i = j
\* included; a pair left without a record makes the load return nonzero
C12_EveryPairSupplied ==
    (probe.loaded /\ rc = EXIT_SUCCESS)
        => \A i, j \in 0..(nMaterials - 1) : PairGiven(probe.file, i, j)

\* C13: a material set that makes the denominator of k_n or of k_t zero for
\* some pair (E = 4 G, or E = 6 G for k_t) is reported as an error: after a
\* successful load every stored stiffness is a finite number
C13_StoredStiffnessFinite ==
    (probe.loaded /\ rc = EXIT_SUCCESS)
        => \A i, j \in 0..(nMaterials - 1) :
               /\ IsFinite(binaryProperties[STIFFNESS_NORMAL][i][j])
               /\ IsFinite(binaryProperties[STIFFNESS_TANGENTIAL][i][j])

(***************************************************************************)
(* Properties of the static load and of the output file                    *)
(***************************************************************************)
\* what the static files fill in
StaticTables ==
    <<nMaterials, intrinsicProperties, binaryProperties, listObstacles, obstaclesMaterial,
      agentProperties, agentMap, agentMapInverse, nAgents>>

EntriesOf(a) ==
    {k \in DOMAIN files.dynamics.Agents :
        files.dynamics.Agents[k].Id.v = agentMapInverse[a + 1]}

\* entry e carries the position, velocity, orientation and angular velocity of agent
CarriesStateOf(e, agent) ==
    /\ e.Position = Att(Str2(agent._x, agent._y))
    /\ e.Velocity = Att(Str2(agent._vx, agent._vy))
    /\ e.Theta = Att(agent._theta)
    /\ e.Omega = Att(agent._w)

\* C15: on a successful return the dynamics file holds, for every agent of the
\* agent table, exactly one entry under the agent's external id, carrying the
\* agent's final position, velocity, theta and omega
C15_OutputHasOneEntryPerAgent ==
    (pc = "idle" /\ rc = EXIT_SUCCESS /\ calls > 0)
        => \A a \in 0..(nAgents - 1) :
               /\ Cardinality(EntriesOf(a)) = 1
               /\ \A k \in EntriesOf(a) : CarriesStateOf(files.dynamics.Agents[k], agents[a])

(***************************************************************************)
(* Properties of the activation predictor                                  *)
(***************************************************************************)
\* an agent of enclosing radius 0.25 m, 1 m from the wall along x = 0, moving
\* towards it at 1 m/s with no driving force, and without agent neighbours
Standoff(agent) ==
    /\ agent._radius = Cm(25)
    /\ agent._x = Dm(10)
    /\ agent._vx = -Mps(1) /\ agent._vy = 0 /\ agent._w = 0
    /\ agent._vx_des = 0 /\ agent._vy_des = 0 /\ agent._w_des = 0
    /\ agent._neighbours = <<>>

\* at its projected position the agent overlaps none of its wall neighbours
\* and none of its agent neighbours
NoOverlapAtProjection(agent) ==
    LET projected == [a \in DOMAIN agents |-> project(agents[a], dt)]
        me == projected[agent._id]
    IN  /\ \A k \in DOMAIN me._neighbours_walls :
               ~overlapsWall(Globals, me, me._neighbours_walls[k])
        /\ \A k \in DOMAIN me._neighbours :
               ~overlapsAgent(me, projected[me._neighbours[k]])

\* C16 as stated: the agent of the wall standoff has no overlap at projection
\* and is therefore not in the active set after the predictor
C16_StandoffAgentInactive ==
    JustPredicted
        => \A a \in DOMAIN agents :
               Standoff(agents[a])
                   => /\ NoOverlapAtProjection(agents[a])
                      /\ ~Contains(mech_active_agents, agents[a]._id)

\* C16, amended: the agent of the wall standoff has no overlap at projection,
\* but its velocity differs from the desired one by 1 m/s, more than the
\* threshold of the reactivity test, and the predictor puts it in the active set
C16_StandoffAgentActiveByMismatch ==
    JustPredicted
        => \A a \in DOMAIN agents :
               Standoff(agents[a])
                   => /\ NoOverlapAtProjection(agents[a])
                      /\ Contains(mech_active_agents, agents[a]._id)

\* the predictor has returned on the wall standoff
C16_Witness ==
    /\ JustPredicted
    /\ \E a \in DOMAIN agents : Standoff(agents[a])

\* the agents activated by the overlap scan or by the reactivity test
Triggered ==
    LET projected == [Globals EXCEPT !.agents =
                         [a \in DOMAIN agents |-> project(agents[a], dt)]]
    IN  Range(scanMismatch(Globals, 0, scanOverlaps(projected, 0, <<>>)))

\* C17: an agent of the active set was triggered by the overlap scan or the
\* reactivity test, or is in the agent-neighbour list of a triggered agent
C17_ClosureIsOneHop ==
    JustPredicted
        => \A k \in DOMAIN mech_active_agents :
               \/ mech_active_agents[k] \in Triggered
               \/ \E t \in Triggered :
                      Contains(agents[t]._neighbours, mech_active_agents[k])

\* the position of an agent after the projection of the predictor
ProjectedPosition(a) == get_r(project(agents[a], dt))

\* C18: after the predictor has run on a file naming every agent once, two
\* agent-neighbours whose projected positions are closer, by the toroidal
\* minimum-image distance, than the sum of their enclosing radii plus 0.1 m
\* are both in the active set
C18_OverlapScanIsToroidal ==
    (JustPredicted /\ EveryAgentListedOnce)
        => \A a1 \in DOMAIN agents :
               \A k \in DOMAIN agents[a1]._neighbours :
                   LET a2 == agents[a1]._neighbours[k]
                   IN  sqrt(ToroidalDistanceSquared(ProjectedPosition(a1), ProjectedPosition(a2)))
                           < agents[a1]._radius + agents[a2]._radius + OverlapMargin
                       => /\ Contains(mech_active_agents, a1)
                          /\ Contains(mech_active_agents, a2)

\* the midpoint of wall segment w = <<iobs, iwall>>
WallMidpoint(w) ==
    LET sum == Add2(listObstacles[w[1] + 1][w[2] + 1], listObstacles[w[1] + 1][w[2] + 2])
    IN  <<sum[1] \div 2, sum[2] \div 2>>

\* agent a has a wall neighbour whose midpoint is closer to a's projected
\* position, by the toroidal minimum-image distance, than its enclosing radius
\* plus 0.1 m
ToroidalMidpointOverlap(a) ==
    \E k \in DOMAIN agents[a]._neighbours_walls :
        sqrt(ToroidalDistanceSquared(ProjectedPosition(a),
                                     WallMidpoint(agents[a]._neighbours_walls[k])))
            < agents[a]._radius + OverlapMargin

\* C19: after the predictor has run on a file naming every agent once, an
\* agent with a toroidal midpoint overlap is in the active set, and an agent
\* that nothing else can activate (no agent neighbour, no velocity mismatch)
\* is in the active set only with a toroidal midpoint overlap
C19_WallScanIsToroidal ==
    (JustPredicted /\ EveryAgentListedOnce)
        => \A a \in DOMAIN agents :
               /\ ToroidalMidpointOverlap(a) => Contains(mech_active_agents, a)
               /\ (/\ Contains(mech_active_agents, a)
                   /\ agents[a]._neighbours = <<>>
                   /\ ~velocityMismatch(agents[a]))
                      => ToroidalMidpointOverlap(a)

\* agent a overlaps, at its projected position, the midpoint of one of its wall
\* neighbours
WallMidpointOverlap(a) ==
    LET me == project(agents[a], dt)
    IN  \E k \in DOMAIN me._neighbours_walls :
            overlapsWall(Globals, me, me._neighbours_walls[k])

\* C20: after the predictor, every agent whose squared velocity mismatch is
\* above 1e-4 is in the active set, with or without neighbours; an agent
\* without agent neighbours, without wall-midpoint overlap and with a mismatch
\* of at most 1e-4 is not in the active set
C20_ReactivityAugment ==
    JustPredicted
        => \A a \in DOMAIN agents :
               /\ velocityMismatch(agents[a]) => Contains(mech_active_agents, a)
               /\ (/\ agents[a]._neighbours = <<>>
                   /\ ~WallMidpointOverlap(a)
                   /\ ~velocityMismatch(agents[a]))
                      => ~Contains(mech_active_agents, a)

(***************************************************************************)
(* Properties of the neighbourhood cutoff                                  *)
(***************************************************************************)
\* the agent moves no faster than vMaxAgent
WithinMaxSpeed(agent) ==
    agent._vx * agent._vx + agent._vy * agent._vy <= vMaxAgent * vMaxAgent

\* the enclosing discs of agents i and j touch after one macro step at their
\* present velocities
TouchWithinStep(i, j) ==
    Norm2(Sub2(get_r(move(agents[i], dt)), get_r(move(agents[j], dt))))
        < agents[i]._radius + agents[j]._radius

\* C21: when the predictor is entered on a file naming every agent once, two
\* agents moving no faster than vMaxAgent whose enclosing discs touch within
\* one macro step are in each other's agent-neighbour list
C21_CutoffCoversCollisions ==
    (pc = "predict" /\ EveryAgentListedOnce)
        => \A i, j \in DOMAIN agents :
               (/\ i # j
                /\ WithinMaxSpeed(agents[i]) /\ WithinMaxSpeed(agents[j])
                /\ TouchWithinStep(i, j))
                   => /\ Contains(agents[i]._neighbours, j)
                      /\ Contains(agents[j]._neighbours, i)

(***************************************************************************)
(* Properties of the macro step                                            *)
(***************************************************************************)
\* agent new is agent old after one relaxation towards its desired velocities
\* and one move with the relaxed velocities (e = 1 / D as in C9)
RelaxedOnce(a, old, new) ==
    LET D == pow2(dt * AgentsFile.Agents[a + 1].FloorDamping.v)
        Dr == pow2(dt * AgentsFile.Agents[a + 1].AngularDamping.v)
    IN  /\ D * new._vx = (D - 1) * old._vx_des + old._vx
        /\ D * new._vy = (D - 1) * old._vy_des + old._vy
        /\ Dr * new._w = (Dr - 1) * old._w_des + old._w
        /\ new._x = old._x + new._vx * dt
        /\ new._y = old._y + new._vy * dt
        /\ new._theta = old._theta + new._w * dt

\* C22: the active set the predictor computes partitions the agents of the
\* macro step.  The resolver stage is entered exactly when the set is not
\* empty; it works on the agents of the set and leaves the others and the set
\* alone.  The passive stage relaxes once every agent outside the set and
\* leaves the agents of the set and the set alone.  The dynamics file is not
\* written before the passive stage has ended, and then holds the agents as
\* both stages left them.
C22_StepPartitionedByActiveSet ==
    /\ [](pc = "resolve" => mech_active_agents # <<>>)
    /\ [][/\ pc = "predict" => /\ (pc' = "resolve") <=> (mech_active_agents' # <<>>)
                               /\ files' = files
          /\ pc = "resolve" => /\ mech_active_agents' = mech_active_agents
                               /\ files' = files
                               /\ \A a \in DOMAIN agents :
                                      ~Contains(mech_active_agents, a) => agents'[a] = agents[a]
          /\ pc = "relax" => /\ mech_active_agents' = mech_active_agents
                             /\ \A a \in DOMAIN agents :
                                    IF Contains(mech_active_agents, a)
                                    THEN agents'[a] = agents[a]
                                    ELSE RelaxedOnce(a, agents[a], agents'[a])
                             /\ files'.dynamics
                                  = generateDynamicsOutputFile(
                                        [Globals EXCEPT !.agents = agents'], files.dynamics)]_vars

\* a macro step has ended in which the resolver moved some agents and the
\* passive stage relaxed another one towards its desired velocity
C22_Witness ==
    /\ pc = "idle" /\ rc = EXIT_SUCCESS /\ calls > 0
    /\ mech_active_agents # <<>>
    /\ \E a \in DOMAIN agents :
           /\ Contains(mech_active_agents, a)
           /\ a \in DOMAIN prev
           /\ agents[a] # prev[a]
    /\ \E a \in DOMAIN agents :
           /\ ~Contains(mech_active_agents, a)
           /\ agents[a]._vx # 0

(***************************************************************************)
(* One contact of the resolver (MechanicalLayer.h is not part of the       *)
(* sources).  Section 4.8 of the specification, per sub-step and contact:  *)
(* overlap xi; on xi <= 0 the contact is released and its history          *)
(* discarded; else F_n = max(0, k_n * xi - gamma_n * vn), the accumulator  *)
(* s_t is integrated with vt * dt_mech and clamped to the Coulomb cone     *)
(* |k_t * s_t| <= mu * F_n.  The friction coefficient is the fraction      *)
(* mu[1] / mu[2]; the coefficients make mu * F_n / k_t a whole number.     *)
(***************************************************************************)
SubStepsPerStep == 3

ContactCoefficients ==
    {[k_n |-> 4, gamma_n |-> 4, k_t |-> 2, mu |-> <<1, 2>>],
     [k_n |-> 8, gamma_n |-> 4, k_t |-> 1, mu |-> <<1, 4>>]}

\* what a sub-step sees of the two bodies: overlap, normal and tangential
\* relative velocity
Overlaps == {-1, 0, 1, 2}

NormalVelocities == {-1, 0, 1}

TangentialVelocities == {-2, -1, 0, 1, 3}

NoContact(state) ==
    [state |-> state, hasHistory |-> FALSE, s_t |-> 0, F_n |-> 0, xi |-> 0, trial |-> 0, vt |-> 0]

\* F_n = k_n * xi - gamma_n * (v_rel . n), clamped at 0 from below
normalForce(c, xi, vn) == Max(0, c.k_n * xi - c.gamma_n * vn)

\* the Coulomb cone test |k_t * s| > mu * F_n
exceedsCone(c, s, F_n) == c.mu[2] * c.k_t * Abs(s) > c.mu[1] * F_n

\* an accumulator that is never clamped
clampToCone_unclamped(c, s, F_n) == s

\* s_t reset to the cone boundary when it would exceed the cone
clampToCone(c, s, F_n) ==
    IF exceedsCone(c, s, F_n)
    THEN (IF s < 0 THEN -1 ELSE 1) * ((c.mu[1] * F_n) \div (c.mu[2] * c.k_t))
    ELSE s

\* a sub-step that keeps the accumulator of a contact that lost its overlap
contactSubStep_keepingHistory(c, contact, xi, vn, vt, step) ==
    IF xi <= 0 THEN [contact EXCEPT !.state = "released", !.F_n = 0, !.xi = xi, !.vt = vt]
    ELSE LET F_n == normalForce(c, xi, vn)
             trial == contact.s_t + vt * step
         IN  [state |-> IF exceedsCone(c, trial, F_n) THEN "sliding" ELSE "touching",
              hasHistory |-> TRUE,
              s_t |-> clampToCone(c, trial, F_n),
              F_n |-> F_n, xi |-> xi, trial |-> trial, vt |-> vt]

\* one sub-step of one contact
contactSubStep(c, contact, xi, vn, vt, step) ==
    IF xi <= 0 THEN [NoContact("released") EXCEPT !.xi = xi, !.vt = vt]
    ELSE LET F_n == normalForce(c, xi, vn)
             start == IF contact.hasHistory THEN contact.s_t ELSE 0
             trial == start + vt * step
         IN  [state |-> IF exceedsCone(c, trial, F_n) THEN "sliding" ELSE "touching",
              hasHistory |-> TRUE,
              s_t |-> clampToCone(c, trial, F_n),
              F_n |-> F_n, xi |-> xi, trial |-> trial, vt |-> vt]

ContactInit ==
    /\ InitDriver
    /\ InitGlobals
    /\ \E c \in ContactCoefficients :
           probe = [c |-> c, k |-> 0, contact |-> NoContact("absent"), seen |-> <<>>]

\* a sub-step of the resolver on the contact of the probe; seen records the
\* states the contact has been in during the macro step
ContactSubStep(xi, vn, vt) ==
    /\ probe.k < SubStepsPerStep
    /\ \E next \in {contactSubStep(probe.c, probe.contact, xi, vn, vt, 1)} :
           probe' = [probe EXCEPT !.k = @ + 1,
                                  !.contact = next,
                                  !.seen = Append(@, next.state)]
    /\ UNCHANGED <<pc, rc, calls, files, progVars, histVars>>

\* the macro step ends: the resolver and its contacts are destroyed, the
\* resolver of the next macro step starts without contacts
ContactNewMacroStep ==
    /\ probe.k = SubStepsPerStep
    /\ probe' = [probe EXCEPT !.k = 0, !.contact = NoContact("absent"), !.seen = <<>>]
    /\ UNCHANGED <<pc, rc, calls, files, progVars, histVars>>

ContactNext ==
    \/ \E xi \in Overlaps, vn \in NormalVelocities, vt \in TangentialVelocities :
           ContactSubStep(xi, vn, vt)
    \/ ContactNewMacroStep

SpecContact == ContactInit /\ [][ContactNext]_vars

\* C23: after every sub-step a contact with overlap xi > 0 has its accumulator
\* inside the Coulomb cone, |k_t * s_t| <= mu * F_n; it is sliding exactly when
\* the integrated accumulator would have left the cone, and then the spring
\* force k_t * s_t is on the cone boundary, with the sign of the integrated
\* accumulator; otherwise s_t is the integrated accumulator
C23_AccumulatorInsideCone ==
    (probe.k > 0 /\ probe.contact.xi > 0)
        => LET c == probe.c
               ct == probe.contact
           IN  /\ c.mu[2] * c.k_t * Abs(ct.s_t) <= c.mu[1] * ct.F_n
               /\ ct.state \in {"touching", "sliding"}
               /\ (ct.state = "sliding") <=> exceedsCone(c, ct.trial, ct.F_n)
               /\ ct.state = "sliding"
                     => /\ c.mu[2] * c.k_t * Abs(ct.s_t) = c.mu[1] * ct.F_n
                        /\ ct.s_t * ct.trial >= 0
               /\ ct.state = "touching" => ct.s_t = ct.trial

\* a contact with history whose integrated accumulator left the cone and was
\* set back to a boundary away from zero
C23_Witness ==
    /\ probe.k >= 2
    /\ probe.contact.state = "sliding"
    /\ probe.contact.s_t # 0
    /\ Abs(probe.contact.trial) > Abs(probe.contact.s_t) + Abs(probe.contact.vt)

\* C24: in a sub-step a contact becomes touching or sliding only with overlap
\* xi > 0, sliding exactly when the Coulomb cone test fails, and released as
\* soon as xi <= 0, whatever its state was.  An absent or released contact
\* holds no accumulator: when it touches (again) the accumulator is integrated
\* from 0, while a contact that stays overlapping integrates from the s_t of
\* the sub-step before.
C24_ContactStateMachine ==
    /\ [](probe.contact.state \in {"absent", "released"}
             => ~probe.contact.hasHistory /\ probe.contact.s_t = 0)
    /\ [][probe'.k = probe.k + 1
            => LET old == probe.contact
                   new == probe'.contact
               IN  /\ new.xi <= 0 => new.state = "released"
                   /\ new.xi > 0
                        => /\ new.state
                                = IF exceedsCone(probe.c, new.trial, new.F_n)
                                  THEN "sliding" ELSE "touching"
                           /\ new.trial = (IF old.state \in {"touching", "sliding"}
                                           THEN old.s_t ELSE 0) + new.vt]_vars

\* a pair that touched with a loaded accumulator, separated and touched again
\* within one macro step
C24_Witness ==
    /\ Len(probe.seen) = 3
    /\ probe.seen[1] \in {"touching", "sliding"}
    /\ probe.seen[2] = "released"
    /\ probe.seen[3] = "touching"
    /\ probe.contact.s_t # 0

(***************************************************************************)
(* parse2DComponents on coordinate strings of zero to three tokens         *)
(***************************************************************************)
Tokens == {Tok(0), Tok(15), Tok(-2), BadTok}

Lines ==
    {<<>>} \cup {<<t>> : t \in Tokens}
           \cup {<<t1, t2>> : t1 \in Tokens, t2 \in Tokens}
           \cup {<<t1, t2, t3>> : t1 \in Tokens, t2 \in Tokens, t3 \in Tokens}

ParseInit ==
    /\ InitDriver
    /\ InitGlobals
    /\ \E line \in Lines : probe = [line |-> line, parsed |-> FALSE, ret |-> <<>>]

\* Global.cpp:104-127  parse2DComponents on the string of the probe
ParseLine(u) ==
    /\ ~probe.parsed
    /\ probe' = [probe EXCEPT !.parsed = TRUE, !.ret = parse2DComponents(probe.line, u)]
    /\ UNCHANGED <<pc, rc, calls, files, progVars, histVars>>

ParseNext == \E u \in IndeterminateDoubles : ParseLine(u)

SpecParse == ParseInit /\ [][ParseNext]_vars

\* the string consists of exactly two comma-separated numbers
TwoNumbers(line) == Len(line) = 2 /\ line[1].num /\ line[2].num

\* C25: parse2DComponents returns EXIT_FAILURE for every string that does not
\* consist of exactly two comma-separated numbers: the empty string, a single
\* number, three or more components, a token that is not a number
C25_MalformedPairRejected ==
    (probe.parsed /\ ~TwoNumbers(probe.line)) => probe.ret[1] = EXIT_FAILURE

(***************************************************************************)
(* Further properties of a call of CrowdMechanics                          *)
(***************************************************************************)
\* C26: when updateSetting has returned success, every agent of the agent
\* table is named by an entry of the dynamics file of the call, from which
\* its kinematics, desired velocities and neighbour list were reset
C26_SuccessMeansEveryAgentListed ==
    pc = "predict"
        => \A a \in DOMAIN agentMapInverse : Count(ListedIds, agentMapInverse[a]) >= 1

\* C27: whenever a call has read the static files and the dynamics file with
\* success, on the first attempt or on a repetition after a failed one, the
\* static tables are those of one clean call: one obstacle and one obstacle
\* material per wall of the geometry file, one damping pair and one external
\* id per agent of the agents file, in the order of the file
C27_RetryRebuildsStaticTables ==
    pc = "predict"
        => /\ nAgents = Len(AgentsFile.Agents)
           /\ Len(listObstacles) = Len(GeometryFile.Walls)
           /\ Len(obstaclesMaterial) = Len(GeometryFile.Walls)
           /\ Len(agentProperties) = nAgents
           /\ Len(agentMapInverse) = nAgents
           /\ \A a \in 1..nAgents : agentMap[agentMapInverse[a]] = a - 1

\* C28: after the predictor has run on a file naming every agent once, an
\* agent whose projected position is closer to a segment of its wall-neighbour
\* list than its enclosing radius, by the point-to-segment distance, is in the
\* active set
C28_NoPassiveAgentIntoWall ==
    (JustPredicted /\ EveryAgentListedOnce)
        => \A a \in DOMAIN agents :
               \A k \in DOMAIN agents[a]._neighbours_walls :
                   DistanceToSegment(project(agents[a], dt), agents[a]._neighbours_walls[k])
                       < agents[a]._radius
                   => Contains(mech_active_agents, a)

\* C29: when the predictor is entered, after the neighbourhood build of any
\* call, agent j occurs in the neighbour list of agent i as often as i occurs
\* in the list of j, at most once, and no agent occurs in its own list
C29_NeighbourRelationSymmetric ==
    pc = "predict"
        => \A i, j \in DOMAIN agents :
               /\ Count(agents[i]._neighbours, j) = Count(agents[j]._neighbours, i)
               /\ Count(agents[i]._neighbours, j) <= 1
               /\ Count(agents[i]._neighbours, i) = 0

\* C30: in every state the active list names agents of the agent table only
\* and names none of them twice, and get_future_collision returns true (the
\* resolver stage is entered) exactly when the list it leaves is not empty
C30_ActiveListIsASet ==
    /\ [](/\ \A k \in DOMAIN mech_active_agents :
                 mech_active_agents[k] \in 0..(nAgents - 1)
          /\ \A k1, k2 \in DOMAIN mech_active_agents :
                 mech_active_agents[k1] = mech_active_agents[k2] => k1 = k2)
    /\ [][pc = "predict" => ((pc' = "resolve") <=> (mech_active_agents' # <<>>))]_vars

\* the predictor has returned true after meeting an overlapping pair from both
\* sides, each agent being in the other's neighbour list
C30_Witness ==
    /\ pc = "resolve"
    /\ \E a1, a2 \in DOMAIN agents :
           /\ a1 # a2
           /\ Contains(agents[a1]._neighbours, a2)
           /\ Contains(agents[a2]._neighbours, a1)
           /\ overlapsAgent(project(agents[a1], dt), project(agents[a2], dt))
           /\ Contains(mech_active_agents, a1)
           /\ Contains(mech_active_agents, a2)

====
